---------------------------- MODULE Spec2Model ----------------------------
(***************************************************************************)
(* WhatsApp / Gemini webhook relay (fentrix.ai).                           *)
(*                                                                         *)
(* The model follows the bot's main file: the POST /webhook handler, the   *)
(* command router handleCommandBasedIntegration, the email conversation    *)
(* flow continueEmailFlow, the action dispatcher executeAction and the     *)
(* automation call sendEmailViaN8n, over the process-wide map              *)
(* userConversationStates.                                                 *)
(*                                                                         *)
(* A JavaScript string is a sequence of one-character strings, so that     *)
(* startsWith, split, trim, toLowerCase and includes are computed.         *)
(***************************************************************************)
EXTENDS Integers, Sequences, FiniteSets, TLC

VARIABLES
    userConversationStates, \* user id -> conversation state, or NoState
    now,                    \* Date.now(), in milliseconds
    env,                    \* which environment variables are set
    req,                    \* the in-flight POST /webhook handlers
    running,                \* the handler that holds the event loop, or None
    arrived,                \* number of webhook requests received so far
    pending,                \* direct calls of the core functions suspended at an await
    last,                   \* the latest step of a direct call: arguments, outcome
    script                  \* a fixed sequence of inbound messages, and how far it was read

vars == <<userConversationStates, now, env, req, running, arrived, pending, last, script>>

-----------------------------------------------------------------------------
(* Bounds of the model *)

MaxInflight == 1    \* webhook requests in flight at once
MaxBatch == 2       \* messages in one webhook batch
MaxRequests == 3    \* webhook requests received in one run
MaxOverlap == 0     \* direct calls that may be suspended while another one starts
MaxWindows == 1     \* whole expiry windows the clock may pass
MaxSlack == 1       \* milliseconds the clock may pass beyond a whole window

-----------------------------------------------------------------------------
(* JavaScript strings *)

UpperCase == <<"A", "B", "C", "D", "E", "F", "G", "H", "I", "J", "K", "L", "M",
               "N", "O", "P", "Q", "R", "S", "T", "U", "V", "W", "X", "Y", "Z">>
LowerCase == <<"a", "b", "c", "d", "e", "f", "g", "h", "i", "j", "k", "l", "m",
               "n", "o", "p", "q", "r", "s", "t", "u", "v", "w", "x", "y", "z">>

WhiteSpace == {" ", "\n", "\t"}

LowerChar(c) ==
    IF \E i \in 1..Len(UpperCase) : UpperCase[i] = c
    THEN LowerCase[CHOOSE i \in 1..Len(UpperCase) : UpperCase[i] = c]
    ELSE c

\* String.prototype.toLowerCase
toLowerCase(s) == [i \in 1..Len(s) |-> LowerChar(s[i])]

\* String.prototype.startsWith
startsWith(s, p) == Len(p) <= Len(s) /\ SubSeq(s, 1, Len(p)) = p

\* String.prototype.includes
includes(s, p) ==
    \E i \in 1..(Len(s) + 1) : i + Len(p) - 1 <= Len(s) /\ SubSeq(s, i, i + Len(p) - 1) = p

\* String.prototype.trim
trim(s) ==
    IF \A i \in 1..Len(s) : s[i] \in WhiteSpace
    THEN <<>>
    ELSE LET lo == CHOOSE i \in 1..Len(s) :
                       s[i] \notin WhiteSpace /\ \A j \in 1..(i - 1) : s[j] \in WhiteSpace
             hi == CHOOSE i \in 1..Len(s) :
                       s[i] \notin WhiteSpace /\ \A j \in (i + 1)..Len(s) : s[j] \in WhiteSpace
         IN SubSeq(s, lo, hi)

\* message.split(' ')[0]
splitFirst(s) ==
    IF \E i \in 1..Len(s) : s[i] = " "
    THEN LET k == CHOOSE i \in 1..Len(s) : s[i] = " " /\ \A j \in 1..(i - 1) : s[j] # " "
         IN SubSeq(s, 1, k - 1)
    ELSE s

\* undefined, as a value that is no string
Undefined == <<"undefined">>

\* JavaScript truthiness of a string-or-undefined value
Truthy(s) == s # Undefined /\ s # <<>>

S_email == <<"/", "e", "m", "a", "i", "l">>
S_EmailX == <<"/", "E", "m", "a", "i", "l", " ", "x">>
S_hi_cmd == <<"/", "h", "i">>
S_to == <<" ", "a", "@", "b", " ">>
S_Hi == <<"H", "i">>
S_send == <<"s", "e", "n", "d">>
S_SEND == <<"S", "E", "N", "D">>
S_send_sp == <<"s", "e", "n", "d", " ">>
S_Cancel == <<"C", "a", "n", "c", "e", "l">>
S_maybe == <<"m", "a", "y", "b", "e">>
S_my_email == <<"m", "y", " ", "e", "m", "a", "i", "l">>
S_slash == <<"/">>
S_cancel == <<"c", "a", "n", "c", "e", "l">>
S_reminder == <<"r", "e", "m", "i", "n", "d", "e", "r">>
S_word_email == <<"e", "m", "a", "i", "l">>
S_weather == <<"w", "e", "a", "t", "h", "e", "r">>
S_note == <<"n", "o", "t", "e">>
S_calendar == <<"c", "a", "l", "e", "n", "d", "a", "r">>
S_schedule == <<"s", "c", "h", "e", "d", "u", "l", "e">>
S_meeting == <<"m", "e", "e", "t", "i", "n", "g">>
S_search == <<"s", "e", "a", "r", "c", "h">>

\* the texts a user may send to the webhook
Texts == {S_email, S_hi_cmd, S_send, S_my_email}

\* the texts the core functions are called with
CoreTexts == {S_email, S_EmailX, S_hi_cmd, S_to, S_SEND, S_Cancel, S_send_sp, S_maybe}

\* the user messages executeAction is called with
ExecMessages == {Undefined, S_to, S_email, S_hi_cmd}

Users == {"u1", "u2"}

\* the users the core functions are called for
CoreUsers == {"u1"}

-----------------------------------------------------------------------------
(* The session store and the results the core functions return *)

\* no entry in userConversationStates
NoState == [flow |-> "absent"]

\* no payload posted to the automation webhook
NoPost == [posted |-> FALSE]

\* a function that has not returned (yet)
NoResult == [returned |-> FALSE]

\* 10 * 60 * 1000
expirationTime == 600000

\* a reset of the whole store in place of the delete of one key
DeleteAll(S, fromNumber) == [u \in DOMAIN S |-> NoState]

\* delete userConversationStates[fromNumber]
Delete(S, fromNumber) == [S EXCEPT ![fromNumber] = NoState]

Result(ok, msg) == [success |-> ok, message |-> msg]

\* what a core function has done when it returns or reaches its await:
\* the store, whether it is suspended at axios.post, its result, the payload posted
\* (site: the function whose await it is)
Returned(S, r) ==
    [states |-> S, await |-> FALSE, result |-> r, payload |-> NoPost, site |-> "none"]
Awaiting(S, p, where) ==
    [states |-> S, await |-> TRUE, result |-> NoResult, payload |-> p, site |-> where]

\* a state object whose timestamp is never set
StaleEmailState(t) ==
    [flow |-> "email", step |-> "recipient",
     data |-> [to |-> <<>>, subject |-> <<>>, body |-> <<>>],
     timestamp |-> 0]

\* the state object created by the /email command
NewEmailState(t) ==
    [flow |-> "email", step |-> "recipient",
     data |-> [to |-> <<>>, subject |-> <<>>, body |-> <<>>],
     timestamp |-> t]

\* sendEmailViaN8n, up to its await: the payload of axios.post
EmailPayload(params, fromNumber, t) ==
    [params |-> params, fromNumber |-> fromNumber, timestamp |-> t]

\* sendEmailViaN8n without its try/catch: the error of axios.post is thrown on
SendEmailUncaught(io) ==
    IF io = "ok"
    THEN Result(TRUE, <<"Email request sent to n8n">>)
    ELSE [thrown |-> io]

\* sendEmailViaN8n, from its await on: io is how axios.post ended
SendEmailResult(io) ==
    IF io = "ok"
    THEN Result(TRUE, <<"Email request sent to n8n">>)
    ELSE Result(FALSE, <<"Failed to send email via n8n: ", io>>)

\* a comparison that takes the limit itself for expired
IsExpiredAtLimit(t, state) == t - state.timestamp >= expirationTime

\* Date.now() - state.timestamp > expirationTime
IsExpired(t, state) == t - state.timestamp > expirationTime

\* a comparison that also trims the input
IsSendTrimmed(message) == toLowerCase(trim(message)) = S_send

\* message.toLowerCase() === 'send'
IsSend(message) == toLowerCase(message) = S_send

\* a comparison that minds the letter case
IsCancelExact(message) == message = S_cancel

\* message.toLowerCase() === 'cancel'
IsCancel(message) == toLowerCase(message) = S_cancel

\* the step that follows a step in switch (state.step)
NextStep(step) ==
    CASE step = "recipient" -> "subject"
      [] step = "subject" -> "body"
      [] step = "body" -> "confirmation"
      [] OTHER -> "confirmation"

\* a flow that takes an input it does not understand at confirmation as a new body
EmailStepRewritesBody(S, t, message, fromNumber, st) ==
    CASE st.step = "recipient" ->
           Returned([S EXCEPT ![fromNumber] =
                        [st EXCEPT !.data.to = trim(message), !.step = "subject"]],
                    Result(TRUE, <<"Great! Now please enter the subject line:">>))
      [] st.step = "subject" ->
           Returned([S EXCEPT ![fromNumber] =
                        [st EXCEPT !.data.subject = trim(message), !.step = "body"]],
                    Result(TRUE, <<"Perfect! Now type the email body:">>))
      [] st.step = "body" ->
           Returned([S EXCEPT ![fromNumber] =
                        [st EXCEPT !.data.body = trim(message), !.step = "confirmation"]],
                    Result(TRUE, <<"Here's your email:", st.data.to, st.data.subject,
                                   trim(message)>>))
      [] st.step = "confirmation" ->
           IF IsSend(message)
           THEN Awaiting([S EXCEPT ![fromNumber] = st],
                         EmailPayload(st.data, fromNumber, t), "continueEmailFlow")
           ELSE IF IsCancel(message)
           THEN Returned(Delete(S, fromNumber), Result(FALSE, <<"Email cancelled.">>))
           ELSE Returned([S EXCEPT ![fromNumber] =
                             [st EXCEPT !.data.body = trim(message)]],
                         Result(FALSE, <<"I didn't understand.">>))
      [] OTHER ->
           Returned(Delete(S, fromNumber),
                    Result(FALSE, <<"Something went wrong with your email.">>))

\* a switch whose case 'subject' goes on to the confirmation at once
EmailStepSkipsBody(S, t, message, fromNumber, st) ==
    CASE st.step = "recipient" ->
           Returned([S EXCEPT ![fromNumber] =
                        [st EXCEPT !.data.to = trim(message), !.step = "subject"]],
                    Result(TRUE, <<"Great! Now please enter the subject line:">>))
      [] st.step = "subject" ->
           Returned([S EXCEPT ![fromNumber] =
                        [st EXCEPT !.data.subject = trim(message), !.step = "confirmation"]],
                    Result(TRUE, <<"Perfect! Now type the email body:">>))
      [] st.step = "body" ->
           Returned([S EXCEPT ![fromNumber] =
                        [st EXCEPT !.data.body = trim(message), !.step = "confirmation"]],
                    Result(TRUE, <<"Here's your email:", st.data.to, st.data.subject,
                                   trim(message)>>))
      [] st.step = "confirmation" ->
           IF IsSend(message)
           THEN Awaiting([S EXCEPT ![fromNumber] = st],
                         EmailPayload(st.data, fromNumber, t), "continueEmailFlow")
           ELSE IF IsCancel(message)
           THEN Returned(Delete(S, fromNumber), Result(FALSE, <<"Email cancelled.">>))
           ELSE Returned([S EXCEPT ![fromNumber] = st],
                         Result(FALSE, <<"I didn't understand.">>))
      [] OTHER ->
           Returned(Delete(S, fromNumber),
                    Result(FALSE, <<"Something went wrong with your email.">>))

\* switch (state.step) of continueEmailFlow, on the state with its timestamp refreshed
EmailStep(S, t, message, fromNumber, st) ==
    CASE st.step = "recipient" ->
           Returned([S EXCEPT ![fromNumber] =
                        [st EXCEPT !.data.to = trim(message), !.step = "subject"]],
                    Result(TRUE, <<"Great! Now please enter the subject line:">>))
      [] st.step = "subject" ->
           Returned([S EXCEPT ![fromNumber] =
                        [st EXCEPT !.data.subject = trim(message), !.step = "body"]],
                    Result(TRUE, <<"Perfect! Now type the email body:">>))
      [] st.step = "body" ->
           Returned([S EXCEPT ![fromNumber] =
                        [st EXCEPT !.data.body = trim(message), !.step = "confirmation"]],
                    Result(TRUE, <<"Here's your email:", st.data.to, st.data.subject,
                                   trim(message)>>))
      [] st.step = "confirmation" ->
           IF IsSend(message)
           THEN Awaiting([S EXCEPT ![fromNumber] = st],
                         EmailPayload(st.data, fromNumber, t), "continueEmailFlow")
           ELSE IF IsCancel(message)
           THEN Returned(Delete(S, fromNumber), Result(FALSE, <<"Email cancelled.">>))
           ELSE Returned([S EXCEPT ![fromNumber] = st],
                         Result(FALSE, <<"I didn't understand.">>))
      [] OTHER ->
           Returned(Delete(S, fromNumber),
                    Result(FALSE, <<"Something went wrong with your email.">>))

\* a flow that refreshes the timestamp before it checks the expiry
continueEmailFlowRefreshFirst(S, t, message, fromNumber, state) ==
    IF IsExpired(t, [state EXCEPT !.timestamp = t])
    THEN Returned(Delete(S, fromNumber),
                  Result(FALSE, <<"Your email session has expired.">>))
    ELSE EmailStep(S, t, message, fromNumber, [state EXCEPT !.timestamp = t])

\* continueEmailFlow, up to its await
continueEmailFlow(S, t, message, fromNumber, state) ==
    IF IsExpired(t, state)
    THEN Returned(Delete(S, fromNumber),
                  Result(FALSE, <<"Your email session has expired.">>))
    ELSE EmailStep(S, t, message, fromNumber, [state EXCEPT !.timestamp = t])

\* a flow that keeps the session when the dispatch has failed
AfterSendKeepsOnFailure(S, fromNumber, io) ==
    IF io = "ok"
    THEN Returned(Delete(S, fromNumber), SendEmailResult(io))
    ELSE Returned(S, SendEmailResult(io))

\* continueEmailFlow, from its await on: the delete and the return of the result
AfterSend(S, fromNumber, io) == Returned(Delete(S, fromNumber), SendEmailResult(io))

\* a suspended core function, resumed when axios.post ends with io
Resume(S, site, fromNumber, io) ==
    IF site = "continueEmailFlow"
    THEN AfterSend(S, fromNumber, io)
    ELSE Returned(S, SendEmailResult(io))

\* a switch whose default falls through to the case '/email'
NewCommandFallThrough(S, t, message, fromNumber) ==
    Returned([S EXCEPT ![fromNumber] = NewEmailState(t)],
             Result(TRUE, <<"Please enter recipient's email address:">>))

\* switch (command) of handleCommandBasedIntegration
NewCommand(S, t, message, fromNumber) ==
    LET command == toLowerCase(splitFirst(message))
    IN IF command = S_email
       THEN Returned([S EXCEPT ![fromNumber] = NewEmailState(t)],
                     Result(TRUE, <<"Please enter recipient's email address:">>))
       ELSE Returned(S, Result(FALSE, <<"Unknown command: ", command>>))

\* a router that takes the message that met an expired session as a new command
handleCommandAfterExpiry(S, t, message, fromNumber) ==
    IF S[fromNumber] # NoState /\ S[fromNumber].flow = "email"
    THEN IF IsExpired(t, S[fromNumber])
         THEN NewCommand(Delete(S, fromNumber), t, message, fromNumber)
         ELSE continueEmailFlow(S, t, message, fromNumber, S[fromNumber])
    ELSE NewCommand(S, t, message, fromNumber)

\* a router that looks at the command before it looks for a conversation state
handleCommandFirst(S, t, message, fromNumber) ==
    IF toLowerCase(splitFirst(message)) = S_email
    THEN NewCommand(S, t, message, fromNumber)
    ELSE IF S[fromNumber] # NoState /\ S[fromNumber].flow = "email"
    THEN continueEmailFlow(S, t, message, fromNumber, S[fromNumber])
    ELSE NewCommand(S, t, message, fromNumber)

\* handleCommandBasedIntegration, up to its await
handleCommandBasedIntegration(S, t, message, fromNumber) ==
    IF S[fromNumber] # NoState /\ S[fromNumber].flow = "email"
    THEN continueEmailFlow(S, t, message, fromNumber, S[fromNumber])
    ELSE NewCommand(S, t, message, fromNumber)

\* the actions executeAction implements as placeholders
StubActions == {"calendar.add", "reminder.add", "notes.create", "weather.get", "search.web"}

\* a switch whose default is the case none
ActionSwitchLenient(S, t, action, params, fromNumber) ==
    CASE action = "email.send" ->
           Awaiting(S, EmailPayload(params, fromNumber, t), "executeAction")
      [] action \in StubActions ->
           Returned(S, Result(TRUE, <<"(not actually implemented yet)", action>>))
      [] OTHER -> Returned(S, Result(TRUE, <<"No action needed">>))

\* switch (action) of executeAction
ActionSwitch(S, t, action, params, fromNumber) ==
    CASE action = "email.send" ->
           Awaiting(S, EmailPayload(params, fromNumber, t), "executeAction")
      [] action \in StubActions ->
           Returned(S, Result(TRUE, <<"(not actually implemented yet)", action>>))
      [] action = "none" -> Returned(S, Result(TRUE, <<"No action needed">>))
      [] OTHER -> Returned(S, Result(FALSE, <<"Unknown action: ", action>>))

\* a dispatcher that hands every user message there is to the command handler
executeActionAnyMessage(S, t, action, params, userMessage, fromNumber) ==
    IF Truthy(userMessage)
    THEN handleCommandBasedIntegration(S, t, userMessage, fromNumber)
    ELSE ActionSwitch(S, t, action, params, fromNumber)

\* executeAction, up to its await
executeAction(S, t, action, params, userMessage, fromNumber) ==
    IF Truthy(userMessage) /\ startsWith(userMessage, S_slash)
    THEN handleCommandBasedIntegration(S, t, userMessage, fromNumber)
    ELSE ActionSwitch(S, t, action, params, fromNumber)

-----------------------------------------------------------------------------
(* The core functions called directly, as their callers and tests call them *)

\* no handler holds the event loop
None == 0

\* how axios.post to the automation webhook may end: or with an error message
IoOutcomes == {"ok", "Network Error"}

\* action names given to executeAction
ActionNames == {"email.send", "calendar.add", "none", "launch.rocket"}

NoParams == [to |-> Undefined, subject |-> Undefined, body |-> Undefined]
ExampleParams == [to |-> S_to, subject |-> S_Hi, body |-> S_maybe]
ParamValues == {NoParams, ExampleParams}

Slots == 1..(MaxOverlap + 1)

NoCall == [busy |-> FALSE]

NoLast == [op |-> "none"]

\* the record of a call: what was called, with what, on which session, when
CallRecord(op, u, m, a, p) ==
    [op |-> op, from |-> u, message |-> m, action |-> a, params |-> p,
     pre |-> userConversationStates[u], at |-> now]

\* a call has run up to its return or its await, with effect eff
Called(c, eff) ==
    /\ Cardinality({s \in Slots : pending[s].busy}) <= MaxOverlap
    /\ userConversationStates' = eff.states
    /\ IF eff.await
       THEN /\ \E s \in Slots :
                 /\ ~pending[s].busy
                 /\ \A z \in Slots : z < s => pending[z].busy
                 /\ pending' = [pending EXCEPT ![s] =
                                   [busy |-> TRUE, call |-> c, site |-> eff.site,
                                    payload |-> eff.payload]]
            /\ last' = c @@ [phase |-> "suspended", result |-> NoResult,
                             posted |-> eff.payload, io |-> "none"]
       ELSE /\ pending' = pending
            /\ last' = c @@ [phase |-> "returned", result |-> eff.result,
                             posted |-> NoPost, io |-> "none"]
    /\ UNCHANGED <<now, env, req, running, arrived, script>>

\* handleCommandBasedIntegration(m, u)
CallCommand(u, m) ==
    Called(CallRecord("handleCommandBasedIntegration", u, m, Undefined, NoParams),
           handleCommandBasedIntegration(userConversationStates, now, m, u))

\* executeAction(a, p, m, u)
CallExecute(u, a, p, m) ==
    Called(CallRecord("executeAction", u, m, a, p),
           executeAction(userConversationStates, now, a, p, m, u))

\* axios.post of a suspended call ends with io, and the call runs to its return
CallReturns(s, io) ==
    /\ pending[s].busy
    /\ LET c == pending[s].call
           eff == Resume(userConversationStates, pending[s].site, c.from, io)
       IN /\ userConversationStates' = eff.states
          /\ last' = c @@ [phase |-> "returned", result |-> eff.result,
                           posted |-> pending[s].payload, io |-> io]
    /\ pending' = [pending EXCEPT ![s] = NoCall]
    /\ UNCHANGED <<now, env, req, running, arrived, script>>

\* time passes: one millisecond, or a whole expiry window
TickSteps == {1, expirationTime}

Tick ==
    /\ running = None
    /\ \E d \in TickSteps :
          /\ now + d <= MaxWindows * expirationTime + MaxSlack
          /\ (now + d) % expirationTime <= MaxSlack
          /\ now' = now + d
    /\ UNCHANGED <<userConversationStates, env, req, running, arrived, pending, last, script>>

-----------------------------------------------------------------------------
(* POST /webhook: the loop over the messages of a batch *)

Reqs == 1..(MaxInflight + 1)

\* an inbound message: message.type, message.from, message.text.body
TextMessage(u, body) == [type |-> "text", from |-> u, hasText |-> TRUE, body |-> body]
\* a message of type text that has no text field
NoTextField(u) == [type |-> "text", from |-> u, hasText |-> FALSE, body |-> Undefined]
ImageMessage(u) == [type |-> "image", from |-> u, hasText |-> FALSE, body |-> Undefined]

Messages ==
    {TextMessage(u, b) : u \in Users, b \in Texts \cup {Undefined}}
    \cup {NoTextField(u) : u \in Users} \cup {ImageMessage(u) : u \in Users}

NoMsg == [type |-> "none"]

\* what getGeminiResponse returns
AiReply(reply, action, params) ==
    [isNull |-> FALSE, reply |-> reply, action |-> action, params |-> params]
\* JSON.parse of the model's text gave null
NullResponse == [isNull |-> TRUE]
NoAi == [isNull |-> FALSE, reply |-> "(none)"]

MockEmailParams ==
    [to |-> <<"recipient@example.com">>, subject |-> <<"Example Subject">>,
     body |-> <<"This is a test email body.">>]

\* getGeminiResponse without GEMINI_API_KEY: the pattern matching on the text
MockResponse(userMessage) ==
    LET lower == toLowerCase(userMessage)
    IN CASE includes(lower, S_reminder) -> AiReply("reminder", "reminder.add", NoParams)
         [] includes(lower, S_word_email) -> AiReply("email", "email.send", MockEmailParams)
         [] includes(lower, S_weather) -> AiReply("weather", "weather.get", NoParams)
         [] includes(lower, S_note) -> AiReply("note", "notes.create", NoParams)
         [] includes(lower, S_calendar) \/ includes(lower, S_schedule)
              \/ includes(lower, S_meeting) -> AiReply("calendar", "calendar.add", NoParams)
         [] includes(lower, S_search) -> AiReply("search", "search.web", NoParams)
         [] OTHER -> AiReply("mock", "none", NoParams)

\* getGeminiResponse with GEMINI_API_KEY: whatever JSON the model wrote, or the
\* fallbacks of the two catch blocks (action none)
AiResponses ==
    {AiReply("model", a, NoParams) : a \in ActionNames \cup {""}}
    \cup {AiReply("model", "email.send", ExampleParams), NullResponse}

\* a handler that has just read the batch of n messages
\* (log: for a scripted batch, the payloads posted to the automation webhook so far;
\* asks: the calls of getGeminiResponse made for the current message)
ReqInit(n) ==
    [pc |-> "loop", left |-> n, msg |-> NoMsg, route |-> "none", pre |-> NoState,
     at |-> 0, ai |-> NoAi, result |-> NoResult, sends |-> 0, posted |-> NoPost,
     next |-> "done", site |-> "none", scripted |-> FALSE, log |-> <<>>, asks |-> 0]

NoReq == [ReqInit(0) EXCEPT !.pc = "idle"]

\* a step of a handler: its new position, the store, and whether it left the event loop
Goes(rq, S, yield) == [rq |-> rq, states |-> S, yield |-> yield]

\* the end of one iteration of for (const message of value.messages); of the
\* message only its type, its branch and the number of sends stay on record
MessageDone(rq, S) ==
    Goes([ReqInit(rq.left - 1) EXCEPT !.msg = [type |-> rq.msg.type], !.route = rq.route,
                                      !.sends = rq.sends, !.scripted = rq.scripted,
                                      !.log = rq.log],
         S, FALSE)

\* the catch (messageError) block: the apology is sent next
Caught(rq, S) ==
    Goes([rq EXCEPT !.pc = "send", !.next = "done", !.route = "caught"], S, FALSE)

\* a core function called by the handler has reached its return or its await
Effect(rq, eff, whenReturned) ==
    IF eff.await
    THEN Goes([rq EXCEPT !.pc = "awaitN8n", !.site = eff.site, !.posted = eff.payload,
                         !.log = IF rq.scripted THEN Append(rq.log, eff.payload) ELSE rq.log],
              eff.states, TRUE)
    ELSE Goes([rq EXCEPT !.pc = whenReturned, !.result = eff.result], eff.states, FALSE)

\* lines 105-122: the command branch, up to the send of the response
CommandBranch(rq, S, t) ==
    Effect([rq EXCEPT !.route = "command", !.next = "done"],
           handleCommandBasedIntegration(S, t, rq.msg.body, rq.msg.from), "send")

\* lines 124-131: the AI branch, up to the send of the reply
AiBranch(rq, S, hasKey) ==
    LET q == [rq EXCEPT !.route = "ai", !.asks = rq.asks + 1]
    IN IF hasKey
       THEN Goes([q EXCEPT !.pc = "awaitAi"], S, TRUE)
       ELSE IF q.msg.body = Undefined
       THEN Caught(q, S)        \* undefined.toLowerCase()
       ELSE Goes([q EXCEPT !.pc = "send", !.next = "action",
                           !.ai = MockResponse(q.msg.body)], S, FALSE)

\* a handler that does not look at message.type
BeginAnyType(rq, S, t, hasKey, m) ==
    LET q == [ReqInit(rq.left) EXCEPT !.msg = m, !.pre = S[m.from], !.at = t,
                                      !.scripted = rq.scripted, !.log = rq.log]
    IN IF ~m.hasText
       THEN Goes([ReqInit(rq.left - 1) EXCEPT !.pc = "idle", !.route = "aborted",
                                              !.msg = [type |-> m.type],
                                              !.scripted = rq.scripted, !.log = rq.log],
                 S, TRUE)
       ELSE IF Truthy(m.body) /\ startsWith(m.body, S_slash)
       THEN CommandBranch(q, S, t)
       ELSE AiBranch(q, S, hasKey)

\* a handler that takes every text with a body for a command
BeginAllCommands(rq, S, t, hasKey, m) ==
    LET q == [ReqInit(rq.left) EXCEPT !.msg = m, !.pre = S[m.from], !.at = t,
                                      !.scripted = rq.scripted, !.log = rq.log]
    IN IF m.type # "text"
       THEN MessageDone([q EXCEPT !.route = "ignored"], S)
       ELSE IF ~m.hasText
       THEN Goes([ReqInit(rq.left - 1) EXCEPT !.pc = "idle", !.route = "aborted",
                                              !.msg = [type |-> m.type],
                                              !.scripted = rq.scripted, !.log = rq.log],
                 S, TRUE)
       ELSE IF Truthy(m.body)
       THEN CommandBranch(q, S, t)
       ELSE AiBranch(q, S, hasKey)

\* lines 98-107: one message of the batch is taken up
Begin(rq, S, t, hasKey, m) ==
    LET q == [ReqInit(rq.left) EXCEPT !.msg = m, !.pre = S[m.from], !.at = t,
                                      !.scripted = rq.scripted, !.log = rq.log]
    IN IF m.type # "text"
       THEN MessageDone([q EXCEPT !.route = "ignored"], S)
       ELSE IF ~m.hasText
       \* message.text.body throws outside the inner try: the outer catch ends the handler
       THEN Goes([ReqInit(rq.left - 1) EXCEPT !.pc = "idle", !.route = "aborted",
                                              !.msg = [type |-> m.type],
                                              !.scripted = rq.scripted, !.log = rq.log],
                 S, TRUE)
       ELSE IF Truthy(m.body) /\ startsWith(m.body, S_slash)
       THEN CommandBranch(q, S, t)
       ELSE AiBranch(q, S, hasKey)

\* lines 135-142: after the reply is sent, the action the AI named
ActionBranch(rq, S, t) ==
    IF rq.ai.action # "" /\ rq.ai.action # "none"
    THEN Effect(rq, executeAction(S, t, rq.ai.action, rq.ai.params, rq.msg.body, rq.msg.from),
                "acted")
    ELSE MessageDone(rq, S)

\* lines 138-141: the follow-up message about the action
FollowUp(rq, S) ==
    IF rq.result.success /\ rq.result.message # <<"No action needed">>
    THEN Goes([rq EXCEPT !.pc = "send", !.next = "done"], S, FALSE)
    ELSE MessageDone(rq, S)

\* what follows a completed sendWhatsAppMessage
Sent(rq, S, t) ==
    IF rq.next = "action" THEN ActionBranch(rq, S, t) ELSE MessageDone(rq, S)

\* the handler takes the step o
Takes(r, o) ==
    /\ req' = [req EXCEPT ![r] = o.rq]
    /\ userConversationStates' = o.states
    /\ running' = IF o.yield THEN None ELSE r

\* a webhook request with a batch of n messages is received
Arrive(r, n) ==
    /\ running = None
    /\ req[r].pc = "idle"
    /\ \A z \in Reqs : z < r => req[z].pc # "idle"
    /\ Cardinality({z \in Reqs : req[z].pc # "idle"}) < MaxInflight
    /\ arrived < MaxRequests
    /\ arrived' = arrived + 1
    /\ req' = [req EXCEPT ![r] = ReqInit(n)]
    /\ running' = r
    /\ UNCHANGED <<userConversationStates, now, env, pending, last, script>>

\* the loop takes up the next message m of the batch
Loop(r, m) ==
    /\ running = r
    /\ req[r].pc = "loop"
    /\ req[r].left > 0
    /\ Takes(r, Begin(req[r], userConversationStates, now, env.GEMINI_API_KEY, m))
    /\ UNCHANGED <<now, env, arrived, pending, last, script>>

\* the batch is exhausted
Finish(r) ==
    /\ running = r
    /\ req[r].pc = "loop"
    /\ req[r].left = 0
    /\ Takes(r, Goes([req[r] EXCEPT !.pc = "idle"], userConversationStates, TRUE))
    /\ UNCHANGED <<now, env, arrived, pending, last, script>>

\* the model's answer arrives
AiReturns(r, resp) ==
    /\ running = None
    /\ req[r].pc = "awaitAi"
    /\ Takes(r, IF resp.isNull
                THEN Caught(req[r], userConversationStates)   \* null.reply
                ELSE Goes([req[r] EXCEPT !.pc = "send", !.next = "action", !.ai = resp],
                          userConversationStates, FALSE))
    /\ UNCHANGED <<now, env, arrived, pending, last, script>>

\* sendWhatsAppMessage is called: without the configuration it returns at once
Send(r) ==
    /\ running = r
    /\ req[r].pc = "send"
    /\ LET q == [req[r] EXCEPT !.sends = req[r].sends + 1]
       IN Takes(r, IF env.WHATSAPP_TOKEN
                   THEN Goes([q EXCEPT !.pc = "awaitSend"], userConversationStates, TRUE)
                   ELSE Sent(q, userConversationStates, now))
    /\ UNCHANGED <<now, env, arrived, pending, last, script>>

\* axios.post of sendWhatsAppMessage ends, either way: the function returns
SendReturns(r) ==
    /\ running = None
    /\ req[r].pc = "awaitSend"
    /\ Takes(r, Sent(req[r], userConversationStates, now))
    /\ UNCHANGED <<now, env, arrived, pending, last, script>>

\* executeAction has returned
Acted(r) ==
    /\ running = r
    /\ req[r].pc = "acted"
    /\ Takes(r, FollowUp(req[r], userConversationStates))
    /\ UNCHANGED <<now, env, arrived, pending, last, script>>

\* axios.post of sendEmailViaN8n ends with io
N8nReturns(r, io) ==
    /\ running = None
    /\ req[r].pc = "awaitN8n"
    /\ Takes(r, Effect(req[r],
                       Resume(userConversationStates, req[r].site, req[r].msg.from, io),
                       IF req[r].route = "command" THEN "send" ELSE "acted"))
    /\ UNCHANGED <<now, env, arrived, pending, last, script>>

NoScript == [msgs |-> <<>>, pos |-> 0]

Init ==
    /\ userConversationStates = [u \in Users |-> NoState]
    /\ now = 0
    /\ env \in [WHATSAPP_TOKEN : BOOLEAN, GEMINI_API_KEY : BOOLEAN]
    /\ req = [r \in Reqs |-> NoReq]
    /\ running = None
    /\ arrived = 0
    /\ pending = [s \in Slots |-> NoCall]
    /\ last = NoLast
    /\ script = NoScript

Next ==
    \/ \E r \in Reqs, n \in 1..MaxBatch : Arrive(r, n)
    \/ \E r \in Reqs, m \in Messages : Loop(r, m)
    \/ \E r \in Reqs : Finish(r)
    \/ \E r \in Reqs, resp \in AiResponses : AiReturns(r, resp)
    \/ \E r \in Reqs : Send(r)
    \/ \E r \in Reqs : SendReturns(r)
    \/ \E r \in Reqs : Acted(r)
    \/ \E r \in Reqs, io \in IoOutcomes : N8nReturns(r, io)
    \/ Tick

Spec == Init /\ [][Next]_vars

-----------------------------------------------------------------------------
(* One user, one batch: /email, then three texts, then send *)

\* the texts given as recipient, subject and body
FieldTexts == {S_to, S_Hi, S_hi_cmd}

EmailScript(u, R, S, B) ==
    <<TextMessage(u, S_email), TextMessage(u, R), TextMessage(u, S),
      TextMessage(u, B), TextMessage(u, S_send)>>

InitScript ==
    /\ userConversationStates = [u \in Users |-> NoState]
    /\ now = 0
    /\ env \in [WHATSAPP_TOKEN : BOOLEAN, GEMINI_API_KEY : BOOLEAN]
    /\ \E R \in FieldTexts, S \in FieldTexts, B \in FieldTexts :
          script = [msgs |-> EmailScript("u1", R, S, B), pos |-> 0]
    /\ req = [r \in Reqs |-> IF r = 1
                             THEN [ReqInit(Len(script.msgs)) EXCEPT !.scripted = TRUE]
                             ELSE NoReq]
    /\ running = 1
    /\ arrived = 1
    /\ pending = [s \in Slots |-> NoCall]
    /\ last = NoLast

\* the loop takes up the next message of the script
LoopScript(r) ==
    /\ running = r
    /\ req[r].pc = "loop"
    /\ req[r].left > 0
    /\ script.pos < Len(script.msgs)
    /\ script' = [script EXCEPT !.pos = script.pos + 1]
    /\ Takes(r, Begin(req[r], userConversationStates, now, env.GEMINI_API_KEY,
                      script.msgs[script.pos + 1]))
    /\ UNCHANGED <<now, env, arrived, pending, last>>

NextScript ==
    \/ \E r \in Reqs : LoopScript(r)
    \/ \E r \in Reqs : Finish(r)
    \/ \E r \in Reqs, resp \in AiResponses : AiReturns(r, resp)
    \/ \E r \in Reqs : Send(r)
    \/ \E r \in Reqs : SendReturns(r)
    \/ \E r \in Reqs : Acted(r)
    \/ \E r \in Reqs, io \in IoOutcomes : N8nReturns(r, io)

SpecScript == InitScript /\ [][NextScript]_vars

-----------------------------------------------------------------------------
InitCore ==
    /\ userConversationStates = [u \in Users |-> NoState]
    /\ now = 0
    /\ env = [WHATSAPP_TOKEN |-> TRUE, GEMINI_API_KEY |-> TRUE]
    /\ req = [r \in Reqs |-> NoReq]
    /\ running = None
    /\ arrived = 0
    /\ pending = [s \in Slots |-> NoCall]
    /\ last = NoLast
    /\ script = NoScript

\* the command router and the flow engine, called with any text
NextCore ==
    \/ \E u \in CoreUsers, m \in CoreTexts : CallCommand(u, m)
    \/ \E s \in Slots, io \in IoOutcomes : CallReturns(s, io)
    \/ Tick

SpecCore == InitCore /\ [][NextCore]_vars

\* the action dispatcher, called with any arguments
NextDispatch ==
    \/ \E u \in CoreUsers, a \in ActionNames, p \in ParamValues, m \in ExecMessages :
          CallExecute(u, a, p, m)
    \/ \E s \in Slots, io \in IoOutcomes : CallReturns(s, io)
    \/ Tick

SpecDispatch == InitCore /\ [][NextDispatch]_vars

-----------------------------------------------------------------------------
(* Several webhook requests of one user in flight: the order in which their
   messages are applied. Here last records, for each handler, the arrival
   number of its request, and for each user the latest-arrived request of
   which a message has been applied. *)

\* the commands the requests carry
OrderTexts == {S_email, S_hi_cmd}

OrderMessages == {TextMessage(u, b) : u \in CoreUsers, b \in OrderTexts}

NoOrder == [op |-> "applied", of |-> [r \in Reqs |-> 0], no |-> [u \in Users |-> 0]]

InitOrder ==
    /\ userConversationStates = [u \in Users |-> NoState]
    /\ now = 0
    /\ env \in [WHATSAPP_TOKEN : BOOLEAN, GEMINI_API_KEY : {FALSE}]
    /\ req = [r \in Reqs |-> NoReq]
    /\ running = None
    /\ arrived = 0
    /\ pending = [s \in Slots |-> NoCall]
    /\ last = NoOrder
    /\ script = NoScript

\* a webhook request arrives while others may be suspended at their awaits
ArriveOrder(r, n) ==
    /\ running = None
    /\ req[r].pc = "idle"
    /\ \A z \in Reqs : z < r => req[z].pc # "idle"
    /\ arrived < MaxRequests
    /\ arrived' = arrived + 1
    /\ req' = [req EXCEPT ![r] = ReqInit(n)]
    /\ running' = r
    /\ last' = [last EXCEPT !.of[r] = arrived + 1]
    /\ UNCHANGED <<userConversationStates, now, env, pending, script>>

\* the loop takes up the next message m of the batch
LoopOrder(r, m) ==
    /\ running = r
    /\ req[r].pc = "loop"
    /\ req[r].left > 0
    /\ Takes(r, Begin(req[r], userConversationStates, now, env.GEMINI_API_KEY, m))
    /\ last' = [last EXCEPT !.no[m.from] =
                    IF last.of[r] > @ THEN last.of[r] ELSE @]
    /\ UNCHANGED <<now, env, arrived, pending, script>>

NextOrder ==
    \/ \E r \in Reqs, n \in 1..MaxBatch : ArriveOrder(r, n)
    \/ \E r \in Reqs, m \in OrderMessages : LoopOrder(r, m)
    \/ \E r \in Reqs : Finish(r)
    \/ \E r \in Reqs : Send(r)
    \/ \E r \in Reqs : SendReturns(r)

SpecOrder == InitOrder /\ [][NextOrder]_vars

-----------------------------------------------------------------------------
(* sendWhatsAppMessage called directly *)

S_plus == <<"+">>
S_number == <<"1", "5">>
S_plus_number == <<"+", "1", "5">>

\* the values given as the argument to (undefined: a message without a from field)
SendNumbers == {S_number, S_plus_number, Undefined}

SendTexts == {S_Hi, S_maybe, Undefined}

\* return; of an async function: the caller gets undefined
ReturnsUndefined == [undefined |-> TRUE]

\* to.startsWith('+') ? to.substring(1) : to
formattedNumber(to) == IF startsWith(to, S_plus) THEN Tail(to) ELSE to

\* sendWhatsAppMessage, from its await on: io is how axios.post ended
SendResult(io) ==
    IF io = "ok"
    THEN [success |-> TRUE, data |-> "response.data"]
    ELSE [success |-> FALSE, error |-> io]

\* sendWhatsAppMessage, up to its await
sendWhatsAppMessage(S, configured, to, message) ==
    IF ~configured
    THEN Returned(S, ReturnsUndefined)
    ELSE IF to = Undefined
    THEN Returned(S, SendResult("Cannot read properties of undefined"))
    ELSE Awaiting(S, [to |-> formattedNumber(to), body |-> message], "sendWhatsAppMessage")

\* sendWhatsAppMessage(to, m)
CallSend(to, m) ==
    Called([op |-> "sendWhatsAppMessage", to |-> to, message |-> m, at |-> now],
           sendWhatsAppMessage(userConversationStates, env.WHATSAPP_TOKEN, to, m))

\* axios.post of a suspended sendWhatsAppMessage ends with io
SendCallReturns(s, io) ==
    /\ pending[s].busy
    /\ pending[s].site = "sendWhatsAppMessage"
    /\ last' = pending[s].call @@ [phase |-> "returned", result |-> SendResult(io),
                                    posted |-> pending[s].payload, io |-> io]
    /\ pending' = [pending EXCEPT ![s] = NoCall]
    /\ UNCHANGED <<userConversationStates, now, env, req, running, arrived, script>>

InitSend ==
    /\ userConversationStates = [u \in Users |-> NoState]
    /\ now = 0
    /\ env \in [WHATSAPP_TOKEN : BOOLEAN, GEMINI_API_KEY : {TRUE}]
    /\ req = [r \in Reqs |-> NoReq]
    /\ running = None
    /\ arrived = 0
    /\ pending = [s \in Slots |-> NoCall]
    /\ last = NoLast
    /\ script = NoScript

NextSend ==
    \/ \E to \in SendNumbers, m \in SendTexts : CallSend(to, m)
    \/ \E s \in Slots, io \in IoOutcomes : SendCallReturns(s, io)
    \/ Tick

SpecSend == InitSend /\ [][NextSend]_vars

-----------------------------------------------------------------------------
(* The command router called for one user while earlier calls are suspended
   at the automation webhook. Here arrived numbers the sessions created so
   far, and script counts, for each session, the payloads posted for it. *)

MaxRace == 1        \* calls that may be suspended while another one is made
MaxSessions == 2    \* sessions created in one run

RaceSlots == 1..(MaxRace + 1)
Sessions == 1..MaxSessions

\* the texts the calls carry
RaceTexts == {S_email, S_Hi, S_send, S_Cancel}

NoDispatch == [sent |-> [k \in Sessions |-> 0]]

InitRace ==
    /\ userConversationStates = [u \in Users |-> NoState]
    /\ now = 0
    /\ env = [WHATSAPP_TOKEN |-> TRUE, GEMINI_API_KEY |-> TRUE]
    /\ req = [r \in Reqs |-> NoReq]
    /\ running = None
    /\ arrived = 0
    /\ pending = [s \in RaceSlots |-> NoCall]
    /\ last = NoLast
    /\ script = NoDispatch

\* handleCommandBasedIntegration(m, u), run up to its return or its await
CallRace(u, m) ==
    LET c == CallRecord("handleCommandBasedIntegration", u, m, Undefined, NoParams)
        eff == handleCommandBasedIntegration(userConversationStates, now, m, u)
        created == userConversationStates[u] = NoState /\ eff.states[u] # NoState
    IN /\ Cardinality({s \in RaceSlots : pending[s].busy}) <= MaxRace
       /\ created => arrived < MaxSessions
       /\ arrived' = IF created THEN arrived + 1 ELSE arrived
       /\ userConversationStates' = eff.states
       /\ IF eff.await
          THEN /\ \E s \in RaceSlots :
                    /\ ~pending[s].busy
                    /\ \A z \in RaceSlots : z < s => pending[z].busy
                    /\ pending' = [pending EXCEPT ![s] =
                                      [busy |-> TRUE, call |-> c, site |-> eff.site,
                                       payload |-> eff.payload, session |-> arrived]]
               /\ script' = [script EXCEPT !.sent[arrived] = @ + 1]
               /\ last' = c @@ [phase |-> "suspended", result |-> NoResult,
                                posted |-> eff.payload, io |-> "none"]
          ELSE /\ pending' = pending
               /\ script' = script
               /\ last' = c @@ [phase |-> "returned", result |-> eff.result,
                                posted |-> NoPost, io |-> "none"]
       /\ UNCHANGED <<now, env, req, running>>

NextRace ==
    \/ \E u \in CoreUsers, m \in RaceTexts : CallRace(u, m)
    \/ \E s \in RaceSlots, io \in IoOutcomes : CallReturns(s, io)

SpecRace == InitRace /\ [][NextRace]_vars

-----------------------------------------------------------------------------
(* The claims *)

\* the handler r has just got the result of the command branch for its message
JustHandled(r) ==
    /\ req[r].pc = "send"
    /\ req[r].route = "command"
    /\ req[r].sends = 0

\* the handler r is at work on a text message whose body is a string
AtText(r) ==
    /\ req[r].pc \notin {"idle", "loop"}
    /\ req[r].msg.type = "text"
    /\ req[r].msg.body # Undefined

\* a direct call of handleCommandBasedIntegration has returned
RouterReturned ==
    /\ last.op = "handleCommandBasedIntegration"
    /\ last.phase = "returned"

\* a direct call of executeAction has returned
DispatcherReturned ==
    /\ last.op = "executeAction"
    /\ last.phase = "returned"

\* the session of the latest direct call had expired when the call was made
LastExpired == last.at - last.pre.timestamp > expirationTime

ExpiredOutcome == [success |-> FALSE, message |-> <<"Your email session has expired.">>]
CancelledOutcome == [success |-> FALSE, message |-> <<"Email cancelled.">>]
NotUnderstoodOutcome == [success |-> FALSE, message |-> <<"I didn't understand.">>]
PromptOutcome == [success |-> TRUE, message |-> <<"Please enter recipient's email address:">>]

\* C1: while a conversation state exists for a user, every text message of that
\* user that the webhook handler takes up goes to the command router and so to
\* continueEmailFlow, never to the AI responder, with or without a leading '/'.
C1_ActiveSessionSwallowsInput ==
    \A r \in Reqs :
        (AtText(r) /\ req[r].pre # NoState) => req[r].route = "command"

\* C2: the batch /email, R, S, B, send of a user without a session ends with
\* exactly one payload posted to the automation webhook, carrying the trimmed
\* R, S and B, and with no conversation state left for the user.
C2_ScriptSendsOneEmail ==
    \A r \in Reqs :
        (req[r].scripted /\ req[r].pc = "idle") =>
            /\ Len(req[r].log) = 1
            /\ req[r].log[1].params = [to |-> trim(script.msgs[2].body),
                                       subject |-> trim(script.msgs[3].body),
                                       body |-> trim(script.msgs[4].body)]
            /\ userConversationStates[script.msgs[1].from] = NoState

\* C3: /email sent by a user whose session is active (not expired) is input to
\* the current step: it becomes the field of that step, or at confirmation it is
\* not understood; no new session, no return to step recipient, no data cleared.
C3_EmailCommandIsFlowInput ==
    \A r \in Reqs :
        (/\ JustHandled(r)
         /\ req[r].msg.body = S_email
         /\ req[r].pre # NoState
         /\ req[r].at - req[r].pre.timestamp <= expirationTime) =>
            LET pre == req[r].pre
                cur == userConversationStates[req[r].msg.from]
            IN /\ cur # NoState
               /\ cur.step # "recipient"
               /\ cur.timestamp = req[r].at
               /\ CASE pre.step = "recipient" ->
                         /\ cur.step = "subject"
                         /\ cur.data = [pre.data EXCEPT !.to = S_email]
                    [] pre.step = "subject" ->
                         /\ cur.step = "body"
                         /\ cur.data = [pre.data EXCEPT !.subject = S_email]
                    [] pre.step = "body" ->
                         /\ cur.step = "confirmation"
                         /\ cur.data = [pre.data EXCEPT !.body = S_email]
                    [] pre.step = "confirmation" ->
                         /\ cur.step = "confirmation"
                         /\ cur.data = pre.data
                         /\ req[r].result = NotUnderstoodOutcome
                         /\ req[r].posted = NoPost

\* C3 witness: /email was taken as the subject, and as confirmation input
C3_Witness ==
    \E r \in Reqs :
        /\ JustHandled(r)
        /\ req[r].msg.body = S_email
        /\ req[r].pre # NoState
        /\ req[r].pre.step = "confirmation"
        /\ req[r].pre.data.subject = S_email
        /\ userConversationStates[req[r].msg.from].step = "confirmation"

\* C4: /email from a user without a conversation state creates one state, for
\* that user only: flow email, step recipient, empty to, subject and body, the
\* timestamp of this moment; the result is the success that asks for the
\* recipient, and nothing is posted to the automation webhook.
C4_EmailCommandCreatesSession ==
    [][\A r \in Reqs :
          (/\ req[r].pc = "loop"
           /\ req'[r].pc = "send"
           /\ req'[r].msg.body = S_email
           /\ userConversationStates[req'[r].msg.from] = NoState) =>
              /\ userConversationStates' =
                    [userConversationStates EXCEPT ![req'[r].msg.from] =
                        [flow |-> "email", step |-> "recipient",
                         data |-> [to |-> <<>>, subject |-> <<>>, body |-> <<>>],
                         timestamp |-> now]]
              /\ req'[r].result = PromptOutcome
              /\ req'[r].posted = NoPost]_vars

\* C4 witness: /email of a user without a state has just been handled
C4_Witness ==
    \E r \in Reqs :
        /\ JustHandled(r)
        /\ req[r].msg.body = S_email
        /\ req[r].pre = NoState
        /\ userConversationStates[req[r].msg.from].step = "recipient"
        /\ req[r].result = PromptOutcome

\* C5 as stated: at step confirmation, cancel in any letter case deletes the
\* session, posts nothing and reports the cancellation.
C5_CancelAsStated ==
    (/\ RouterReturned
     /\ last.pre # NoState
     /\ last.pre.step = "confirmation"
     /\ toLowerCase(last.message) = S_cancel) =>
        /\ userConversationStates[last.from] = NoState
        /\ last.posted = NoPost
        /\ last.result = CancelledOutcome

\* C5 amended: at step confirmation, cancel in any letter case deletes the
\* session and posts nothing; it reports the cancellation when the session has
\* not expired, and the expiry when it has.
C5_CancelDeletesSession ==
    (/\ RouterReturned
     /\ last.pre # NoState
     /\ last.pre.step = "confirmation"
     /\ toLowerCase(last.message) = S_cancel) =>
        /\ userConversationStates[last.from] = NoState
        /\ last.posted = NoPost
        /\ last.result = IF LastExpired THEN ExpiredOutcome ELSE CancelledOutcome

\* C5 witness: Cancel has cancelled a session that had not expired
C5_Witness ==
    /\ RouterReturned
    /\ last.pre # NoState
    /\ last.pre.step = "confirmation"
    /\ last.message = S_Cancel
    /\ ~LastExpired
    /\ last.result = CancelledOutcome
    /\ userConversationStates[last.from] = NoState

\* C6 as stated: at step confirmation, an input that is neither send nor cancel
\* (in any letter case) leaves the session at step confirmation, posts nothing
\* and is reported as not understood.
C6_OtherInputAsStated ==
    (/\ RouterReturned
     /\ last.pre # NoState
     /\ last.pre.step = "confirmation"
     /\ toLowerCase(last.message) \notin {S_send, S_cancel}) =>
        /\ userConversationStates[last.from] # NoState
        /\ userConversationStates[last.from].step = "confirmation"
        /\ last.posted = NoPost
        /\ last.result = NotUnderstoodOutcome

\* C6 amended: at step confirmation of a session that has not expired, an input
\* that is neither send nor cancel (in any letter case) leaves the session as it
\* was but for its timestamp, posts nothing and is reported as not understood,
\* however often it happens.
C6_OtherInputRepeatsConfirmation ==
    (/\ RouterReturned
     /\ last.pre # NoState
     /\ last.pre.step = "confirmation"
     /\ ~LastExpired
     /\ toLowerCase(last.message) \notin {S_send, S_cancel}) =>
        /\ userConversationStates[last.from] = [last.pre EXCEPT !.timestamp = last.at]
        /\ last.posted = NoPost
        /\ last.result = NotUnderstoodOutcome

\* C6 witness: "send " was not understood at a confirmation step that an
\* earlier "maybe" had already repeated
C6_Witness ==
    /\ RouterReturned
    /\ last.pre # NoState
    /\ last.pre.step = "confirmation"
    /\ last.pre.timestamp > 0
    /\ ~LastExpired
    /\ last.message = S_send_sp
    /\ last.result = NotUnderstoodOutcome
    /\ userConversationStates[last.from].step = "confirmation"

\* C7: a text message of a user whose session's last activity is more than ten
\* minutes old, whatever the text and the step, deletes the session and reports
\* the expiry; no step is taken, no field stored, nothing posted.
C7_ExpiredSessionIsDeleted ==
    \A r \in Reqs :
        (/\ AtText(r)
         /\ req[r].pre # NoState
         /\ req[r].at - req[r].pre.timestamp > expirationTime) =>
            /\ req[r].route = "command"
            /\ userConversationStates[req[r].msg.from] = NoState
            /\ req[r].posted = NoPost
            /\ req[r].pc = "send" => req[r].result = ExpiredOutcome

\* C8: a handler ends only when every message of its batch has been taken up:
\* a message that throws does not keep the later ones from being processed.
C8_BatchSurvivesThrow ==
    \A r \in Reqs : req[r].pc = "idle" => req[r].left = 0

\* C9 as stated: executeAction with an action it does not know returns a failure
\* that names the action, and with none a success, whatever the params, the
\* user message and the sender, and it changes no conversation state.
C9_DispatchAsStated ==
    (/\ DispatcherReturned
     /\ last.action \notin StubActions \cup {"email.send"}) =>
        /\ last.result = IF last.action = "none"
                         THEN [success |-> TRUE, message |-> <<"No action needed">>]
                         ELSE [success |-> FALSE,
                               message |-> <<"Unknown action: ", last.action>>]
        /\ userConversationStates[last.from] = last.pre

\* C9 amended: the same, for every params and sender and for every user message
\* that is absent, empty or does not start with '/'.
C9_DispatchWithoutCommand ==
    (/\ DispatcherReturned
     /\ last.action \notin StubActions \cup {"email.send"}
     /\ (last.message = Undefined \/ last.message = <<>> \/ Head(last.message) # "/")) =>
        /\ last.result = IF last.action = "none"
                         THEN [success |-> TRUE, message |-> <<"No action needed">>]
                         ELSE [success |-> FALSE,
                               message |-> <<"Unknown action: ", last.action>>]
        /\ userConversationStates[last.from] = last.pre

\* C9 witness: an unknown action was refused while the sender had a session
C9_Witness ==
    /\ DispatcherReturned
    /\ last.action = "launch.rocket"
    /\ last.message = S_to
    /\ last.params = ExampleParams
    /\ last.pre # NoState
    /\ last.result.success = FALSE
    /\ userConversationStates[last.from] = last.pre

\* C10: email.send returns a result with success true exactly when axios.post
\* to the automation webhook ended without error, and a result with success
\* false when it failed: it returns in both cases, nothing is thrown.
C10_EmailSendReportsOutcome ==
    (/\ DispatcherReturned
     /\ last.action = "email.send"
     /\ last.posted # NoPost) =>
        /\ DOMAIN last.result = {"success", "message"}
        /\ last.result.success = (last.io = "ok")

\* C10 witness: email.send has returned the failure of the automation webhook
C10_Witness ==
    /\ DispatcherReturned
    /\ last.action = "email.send"
    /\ last.posted # NoPost
    /\ last.io = "Network Error"
    /\ last.result.success = FALSE

\* C11: the messages of one user are applied to the user's conversation state
\* in the order of arrival: a handler never takes up a message of a user after
\* a message of that user from a request that arrived later has been applied.
C11_AppliedInArrivalOrder ==
    [][\A r \in Reqs :
          (/\ req[r].pc = "loop"
           /\ req[r].left > 0
           /\ req'[r].pc # "loop"
           /\ req'[r].msg.type = "text") =>
              last.of[r] >= last.no[req'[r].msg.from]]_vars

\* the handler r has finished with a text message (or was ended by it)
TextMessageOver(r) ==
    /\ req[r].pc \in {"loop", "idle"}
    /\ req[r].route \in {"command", "ai", "caught", "aborted"}

\* C12: for every text message the handler calls sendWhatsAppMessage once or
\* twice for the sender of the message: never more than twice while the message
\* is processed, and at least once by the time the handler is done with it.
C12_OneOrTwoSends ==
    \A r \in Reqs :
        /\ req[r].sends <= 2
        /\ TextMessageOver(r) => req[r].sends >= 1

\* the handler r is at work on a text message that does not start with '/'
\* (an absent body included) of a user who had no conversation state
AtPlainTextWithoutSession(r) ==
    /\ req[r].pc \notin {"idle", "loop"}
    /\ req[r].msg.type = "text"
    /\ req[r].msg.hasText
    /\ ~startsWith(req[r].msg.body, S_slash)
    /\ req[r].pre = NoState

\* C13: a text message that does not start with '/', from a user without a
\* conversation state, is given to getGeminiResponse exactly once and never to
\* the command handler: it is on the AI route (or in the catch block that route
\* leads to), and no result it gets is a result of the command handler.
C13_PlainTextGoesToAiOnce ==
    \A r \in Reqs :
        AtPlainTextWithoutSession(r) =>
            /\ req[r].route \in {"ai", "caught"}
            /\ req[r].asks = 1
            /\ req[r].result # NoResult =>
                  /\ req[r].result # PromptOutcome
                  /\ Head(req[r].result.message) # "Unknown command: "

\* C13 witness: the action the AI named for such a message has been executed
C13_Witness ==
    \E r \in Reqs :
        /\ AtPlainTextWithoutSession(r)
        /\ req[r].msg.body = S_my_email
        /\ req[r].route = "ai"
        /\ req[r].asks = 1
        /\ req[r].pc = "acted"
        /\ req[r].result.success

\* C14: a message that starts with '/' and whose first word is not a command
\* the handler knows, from a user without a conversation state, gets the
\* failure that names the command as unknown, and the store of conversation
\* states is left as it was, for every user.
C14_UnknownCommandChangesNothing ==
    [][\A r \in Reqs :
          (/\ req[r].pc = "loop"
           /\ req[r].left > 0
           /\ req'[r].route = "command"
           /\ req'[r].pc # "loop"
           /\ userConversationStates[req'[r].msg.from] = NoState
           /\ toLowerCase(splitFirst(req'[r].msg.body)) # S_email) =>
              /\ req'[r].pc = "send"
              /\ req'[r].result =
                    [success |-> FALSE,
                     message |-> <<"Unknown command: ",
                                   toLowerCase(splitFirst(req'[r].msg.body))>>]
              /\ req'[r].posted = NoPost
              /\ userConversationStates' = userConversationStates]_vars

\* C14 witness: /hi of a user without a state was refused while another user
\* had a session
C14_Witness ==
    \E r \in Reqs :
        /\ JustHandled(r)
        /\ req[r].msg.body = S_hi_cmd
        /\ req[r].pre = NoState
        /\ req[r].result = [success |-> FALSE, message |-> <<"Unknown command: ", S_hi_cmd>>]
        /\ userConversationStates[req[r].msg.from] = NoState
        /\ \E u \in Users : userConversationStates[u] # NoState

\* C15: when the processing of a text message has thrown, by the time the
\* handler is done with the message it has called sendWhatsAppMessage with the
\* apology for the sender of the message.
C15_ThrowGetsApology ==
    \A r \in Reqs :
        (/\ req[r].route \in {"caught", "aborted"}
         /\ req[r].pc \in {"loop", "idle"}) =>
            req[r].sends >= 1

\* C16: a message whose type is not text is passed over: no call of
\* getGeminiResponse, no send, nothing posted to the automation webhook, no
\* conversation state changed, nothing thrown, and the loop goes on to the
\* next message of the batch.
C16_NonTextIsIgnored ==
    [][\A r \in Reqs :
          (/\ req[r].pc = "loop"
           /\ req[r].left > 0
           /\ req'[r] # req[r]
           /\ req'[r].msg.type \notin {"text", "none"}) =>
              /\ req'[r].pc = "loop"
              /\ req'[r].left = req[r].left - 1
              /\ req'[r].route = "ignored"
              /\ req'[r].asks = 0
              /\ req'[r].sends = 0
              /\ req'[r].posted = NoPost
              /\ running' = r
              /\ userConversationStates' = userConversationStates]_vars

\* C16 witness: an image was passed over while its sender had a session, and
\* the batch has a message left
C16_Witness ==
    \E r \in Reqs :
        /\ req[r].pc = "loop"
        /\ req[r].route = "ignored"
        /\ req[r].msg.type = "image"
        /\ req[r].left > 0
        /\ running = r
        /\ \E u \in Users : userConversationStates[u] # NoState

\* C17: sendWhatsAppMessage throws nothing and returns, in every case, an
\* object that carries a boolean success flag.
C17_SendReturnsOutcome ==
    (/\ last.op = "sendWhatsAppMessage"
     /\ last.phase = "returned") =>
        /\ "success" \in DOMAIN last.result
        /\ last.result.success \in BOOLEAN

\* C18: whenever a session is changed and still there, its step has moved one
\* position forward along recipient, subject, body, confirmation, or it was at
\* confirmation and stays there: no step back, no step skipped, and from
\* confirmation only the removal of the session leads away.
C18_StepOnlyForward ==
    [][\A u \in Users :
          LET a == userConversationStates[u]
              b == userConversationStates'[u]
          IN (a # NoState /\ b # NoState /\ a # b) =>
                b.step = NextStep(a.step)]_vars

\* C18 witness: an input has moved a session from body to confirmation
C18_Witness ==
    /\ RouterReturned
    /\ last.pre # NoState
    /\ last.pre.step = "body"
    /\ userConversationStates[last.from] # NoState
    /\ userConversationStates[last.from].step = "confirmation"
    /\ userConversationStates[last.from].data.subject # <<>>

\* the handler r takes a step for a message of the user u
StepsFor(r, u) ==
    /\ req'[r] # req[r]
    /\ IF req[r].pc = "loop"
       THEN "from" \in DOMAIN req'[r].msg /\ req'[r].msg.from = u
       ELSE "from" \in DOMAIN req[r].msg /\ req[r].msg.from = u

\* C19: the conversation state of a user is created, changed or deleted only
\* in the handling of a message of that user: handling a message of another
\* user leaves it as it is.
C19_OnlyOwnState ==
    [][\A u \in Users :
          userConversationStates'[u] # userConversationStates[u] =>
              \E r \in Reqs : StepsFor(r, u)]_vars

\* C19 witness: the expired session of one user has been deleted while another
\* user's session is in place
C19_Witness ==
    \E r \in Reqs :
        /\ JustHandled(r)
        /\ req[r].pre # NoState
        /\ req[r].result = ExpiredOutcome
        /\ userConversationStates[req[r].msg.from] = NoState
        /\ \E u \in Users : u # req[r].msg.from /\ userConversationStates[u] # NoState

\* C20: a message for an existing session is first checked for expiry against
\* the timestamp stored in the session: an expired session is deleted, its
\* timestamp never refreshed; a session that has not expired gets the current
\* time as its timestamp at every step, whatever the input (at confirmation an
\* input that is not understood included), before its input is acted on.
C20_ExpiryBeforeRefresh ==
    (/\ last.op = "handleCommandBasedIntegration"
     /\ last.pre # NoState) =>
        LET cur == userConversationStates[last.from]
        IN IF LastExpired
           THEN /\ last.phase = "returned"
                /\ last.result = ExpiredOutcome
                /\ cur = NoState
           ELSE CASE last.phase = "suspended" ->
                       cur # NoState /\ cur.timestamp = last.at
                  [] last.posted # NoPost -> cur = NoState
                  [] last.pre.step = "confirmation" /\ IsCancel(last.message) ->
                       cur = NoState
                  [] OTHER -> cur # NoState /\ cur.timestamp = last.at

\* C20 witness: exactly ten minutes after the last activity, an input that is
\* not understood at confirmation has refreshed the timestamp
C20_Witness ==
    /\ RouterReturned
    /\ last.pre # NoState
    /\ last.pre.step = "confirmation"
    /\ last.message = S_maybe
    /\ last.at - last.pre.timestamp = expirationTime
    /\ userConversationStates[last.from] # NoState
    /\ userConversationStates[last.from].timestamp = last.at

\* the result of the dispatch that ended with io
DispatchOutcome(io) ==
    IF io = "ok"
    THEN [success |-> TRUE, message |-> <<"Email request sent to n8n">>]
    ELSE [success |-> FALSE, message |-> <<"Failed to send email via n8n: ", io>>]

\* a direct call of the command router with send (in any letter case) for a
\* session at step confirmation has returned
SendHandled ==
    /\ RouterReturned
    /\ last.pre # NoState
    /\ last.pre.step = "confirmation"
    /\ toLowerCase(last.message) = S_send

\* C21 as stated: at step confirmation, send dispatches the email, removes the
\* session whether the dispatch succeeds or fails, and reports the result of
\* the dispatch.
C21_SendAsStated ==
    SendHandled =>
        /\ userConversationStates[last.from] = NoState
        /\ last.posted # NoPost
        /\ last.result = DispatchOutcome(last.io)

\* C21 amended: the same for a session that has not expired; the data posted
\* are the data of the session.
C21_SendRemovesSession ==
    (SendHandled /\ ~LastExpired) =>
        /\ userConversationStates[last.from] = NoState
        /\ last.posted # NoPost
        /\ last.posted.params = last.pre.data
        /\ last.result = DispatchOutcome(last.io)

\* C21 witness: the dispatch failed, the failure is reported and the session
\* is gone
C21_Witness ==
    /\ SendHandled
    /\ ~LastExpired
    /\ last.io = "Network Error"
    /\ last.result.success = FALSE
    /\ userConversationStates[last.from] = NoState

\* C22: a message for a session gets the expired outcome exactly when it comes
\* more than ten minutes after the session's last activity; one that comes
\* exactly ten minutes after it advances the flow as usual.
C22_StrictTenMinutes ==
    (/\ last.op = "handleCommandBasedIntegration"
     /\ last.pre # NoState) =>
        /\ (last.result = ExpiredOutcome) <=> (last.at - last.pre.timestamp > expirationTime)
        /\ (/\ last.at - last.pre.timestamp = expirationTime
            /\ last.pre.step # "confirmation") =>
               /\ userConversationStates[last.from] # NoState
               /\ userConversationStates[last.from].step = NextStep(last.pre.step)

\* C22 witness: the recipient was taken exactly ten minutes after /email
C22_Witness ==
    /\ RouterReturned
    /\ last.pre # NoState
    /\ last.pre.step = "recipient"
    /\ last.at - last.pre.timestamp = expirationTime
    /\ userConversationStates[last.from] # NoState
    /\ userConversationStates[last.from].step = "subject"
    /\ last.result.success

\* C23: however the calls for one user interleave, at most one payload is
\* posted to the automation webhook for each session, and no cancellation is
\* reported for a session whose email is being sent.
C23_OneDispatchPerSession ==
    /\ \A k \in DOMAIN script.sent : script.sent[k] <= 1
    /\ (RouterReturned /\ last.result = CancelledOutcome) =>
          \A s \in DOMAIN pending :
              pending[s].busy => pending[s].session # arrived

\* C24: when a suspended send returns, the delete it performs removes only the
\* session that was dispatched: a session the user has created since with
\* /email stays as it is.
C24_DeleteOnlyDispatchedSession ==
    [][\A s \in DOMAIN pending :
          (/\ pending[s].busy
           /\ ~pending'[s].busy
           /\ pending[s].session # arrived) =>
              userConversationStates'[pending[s].call.from] =
                  userConversationStates[pending[s].call.from]]_vars

S_slash_send == <<"/", "s", "e", "n", "d">>
S_slash_cancel == <<"/", "c", "a", "n", "c", "e", "l">>

\* the texts a user may try in order to end a session at step confirmation
EndingTexts ==
    {S_send, S_SEND, S_send_sp, S_slash_send, S_cancel, S_Cancel, S_slash_cancel}

\* what the webhook handler does with the text m of the user u, up to its
\* first await
WebhookTakes(u, m) ==
    Begin(ReqInit(1), userConversationStates, now, env.GEMINI_API_KEY, TextMessage(u, m))

\* the handling of the text reaches the send branch of continueEmailFlow
ReachesSendBranch(u, m) ==
    /\ WebhookTakes(u, m).rq.pc = "awaitN8n"
    /\ WebhookTakes(u, m).rq.site = "continueEmailFlow"

\* the handling of the text reaches the cancel branch of continueEmailFlow
ReachesCancelBranch(u, m) ==
    /\ WebhookTakes(u, m).rq.route = "command"
    /\ WebhookTakes(u, m).rq.result = CancelledOutcome
    /\ WebhookTakes(u, m).states[u] = NoState

\* C25: whenever a user has a session at step confirmation that has not
\* expired, there is a text message the webhook handler takes to the send
\* branch of continueEmailFlow, and one it takes to the cancel branch.
C25_ConfirmationCanBeEnded ==
    \A u \in Users :
        (/\ userConversationStates[u] # NoState
         /\ userConversationStates[u].step = "confirmation"
         /\ ~IsExpired(now, userConversationStates[u])) =>
            /\ \E m \in EndingTexts : ReachesSendBranch(u, m)
            /\ \E m \in EndingTexts : ReachesCancelBranch(u, m)

\* the handler r takes a step in the processing of a text message that does
\* not start with '/' (the message is on the AI route)
StepsOnAiRoute(r) ==
    /\ req'[r] # req[r]
    /\ IF req[r].pc = "loop"
       THEN req[r].left > 0 /\ req'[r].route \in {"ai", "caught"}
       ELSE req[r].route \in {"ai", "caught"}

\* C26: no step in the processing of a text message that does not start with
\* '/' creates, changes or deletes a conversation state, whatever action and
\* params getGeminiResponse has returned.
C26_PlainTextLeavesStore ==
    [][(\E r \in Reqs : StepsOnAiRoute(r)) =>
          userConversationStates' = userConversationStates]_vars

\* C26 witness: the email.send that the AI named for a plain text has been
\* executed for a user who has a session, and the session is as it was
C26_Witness ==
    \E r \in Reqs :
        /\ req[r].route = "ai"
        /\ req[r].pc = "acted"
        /\ req[r].posted # NoPost
        /\ req[r].pre # NoState
        /\ userConversationStates[req[r].msg.from] = req[r].pre

\* a direct call of the command router with the command /email has returned
EmailCommandHandled ==
    /\ RouterReturned
    /\ toLowerCase(splitFirst(last.message)) = S_email

\* C27: the message that meets an expired session is consumed: the session is
\* deleted, the message gets the expired outcome and is not taken as a command,
\* so that after an /email no session exists; an /email that meets no session
\* starts one at step recipient.
C27_ExpiryConsumesMessage ==
    /\ (/\ last.op = "handleCommandBasedIntegration"
        /\ last.pre # NoState
        /\ LastExpired) =>
           /\ last.phase = "returned"
           /\ last.result = ExpiredOutcome
           /\ last.posted = NoPost
           /\ userConversationStates[last.from] = NoState
    /\ (EmailCommandHandled /\ last.pre = NoState) =>
           /\ last.result = PromptOutcome
           /\ userConversationStates[last.from] = NewEmailState(last.at)

\* C27 witness: /email has met an expired session; it got the expired outcome
\* and no session exists
C27_Witness ==
    /\ EmailCommandHandled
    /\ last.message = S_email
    /\ last.pre # NoState
    /\ LastExpired
    /\ last.result = ExpiredOutcome
    /\ userConversationStates[last.from] = NoState

\* the steps at which the fields of data are stored already
ToStored == {"subject", "body", "confirmation"}
SubjectStored == {"body", "confirmation"}
BodyStored == {"confirmation"}

\* C28: while a session lasts, no input changes a field that is stored: data.to
\* after the recipient step, data.subject after the subject step, data.body
\* after the body step; the draft returned at the body step shows the stored
\* fields, and the payload posted on send carries the fields of the session.
C28_StoredFieldsFixed ==
    [][/\ \A u \in Users :
            LET a == userConversationStates[u]
                b == userConversationStates'[u]
            IN (a # NoState /\ b # NoState) =>
                  /\ a.step \in ToStored => b.data.to = a.data.to
                  /\ a.step \in SubjectStored => b.data.subject = a.data.subject
                  /\ a.step \in BodyStored => b.data.body = a.data.body
       /\ (/\ last'.op = "handleCommandBasedIntegration"
           /\ last'.pre # NoState
           /\ last'.pre.step = "body"
           /\ last'.result # ExpiredOutcome) =>
              LET b == userConversationStates'[last'.from]
              IN /\ b # NoState
                 /\ b.data.to = last'.pre.data.to
                 /\ b.data.subject = last'.pre.data.subject
                 /\ last'.result.message =
                       <<"Here's your email:", b.data.to, b.data.subject, b.data.body>>
       /\ (/\ last'.op = "handleCommandBasedIntegration"
           /\ last'.posted # NoPost) =>
              /\ last'.pre # NoState
              /\ last'.pre.step = "confirmation"
              /\ last'.posted.params = last'.pre.data]_vars

\* C28 witness: an input that is not understood has come at confirmation and
\* the session holds the recipient, the subject and the body it held before
C28_Witness ==
    /\ RouterReturned
    /\ last.pre # NoState
    /\ last.pre.step = "confirmation"
    /\ last.result = NotUnderstoodOutcome
    /\ last.pre.data.to = trim(S_to)
    /\ last.pre.data.subject # last.pre.data.body
    /\ trim(last.message) # last.pre.data.body
    /\ userConversationStates[last.from] # NoState
    /\ userConversationStates[last.from].data = last.pre.data

=============================================================================
